---- MODULE Spec2Model ----
(***************************************************************************)
(* Verification model of the paper search pipeline:                        *)
(*   app/services/paper_search/aggregator.py      (PaperSearchAggregator)  *)
(*   app/services/paper_search/google_scholar.py  (GoogleScholarSearcher)  *)
(*   app/api/v1/endpoints/search.py               (process_search_task)    *)
(*   app/services/storage/firestore_manager.py    (FirestoreSessionManager)*)
(*                                                                         *)
(* Strings that the code inspects character by character (titles,          *)
(* published dates) are sequences of one-character strings.  A Python None *)
(* is the empty tuple <<>> and a present optional value v is <<v>>.        *)
(***************************************************************************)
EXTENDS Integers, Sequences, FiniteSets, TLC

\* ------------------------------------------------------------------------
\* models/paper.py, models/search.py : the enumerations
\* ------------------------------------------------------------------------
ARXIV == "arxiv"
GOOGLE_SCHOLAR == "google_scholar"
PUBMED == "pubmed"
IEEE == "ieee"
PaperSource == {ARXIV, GOOGLE_SCHOLAR, PUBMED, IEEE}

RELEVANCE == "relevance"
RECENT == "recent"
CITED == "cited"
SortBy == {RELEVANCE, RECENT, CITED}

PENDING == "pending"
PROCESSING == "processing"
COMPLETED == "completed"
FAILED == "failed"
SearchStatus == {PENDING, PROCESSING, COMPLETED, FAILED}

None == <<>>
Some(v) == <<v>>

\* ------------------------------------------------------------------------
\* Bounds of the model
\* ------------------------------------------------------------------------
\* longest candidate pool handed to the dedup / sort functions on their own
MaxPool == 3
\* longest list one adapter returns in one search
MaxPerSource == 3
\* largest max_results a caller asks for
MaxResults == 3

\* ------------------------------------------------------------------------
\* The papers the adapters can return.  A paper is referred to by a handle;
\* PaperOf gives the fields of models/paper.py:Paper that the pipeline reads.
\* ------------------------------------------------------------------------
Paper(id, source, title, doi, citation_count, published) ==
    [id |-> id, source |-> source, title |-> title, doi |-> doi,
     citation_count |-> citation_count, published |-> published]

T_DeepVision ==
    <<"D","e","e","p"," ","L","e","a","r","n","i","n","g"," ","f","o","r"," ","V","i","s","i","o","n">>
T_DeepVisionBang ==
    <<"d","e","e","p"," ","l","e","a","r","n","i","n","g"," ","f","o","r"," ","v","i","s","i","o","n","!","!">>
T_ShallowAudio ==
    <<"S","h","a","l","l","o","w"," ","N","e","t","w","o","r","k","s"," ","f","o","r"," ","A","u","d","i","o">>
T_Seven == <<"a"," ","b"," ","c"," ","d"," ","e"," ","f"," ","g">>
T_Six == <<"A"," ","B","-",","," ","C"," ","D"," ","E"," ","F">>
T_Five == <<" ","a"," "," ","b","\t","c"," ","d"," ","e"," ">>
T_Graph == <<"G","r","a","p","h"," ","N","e","t","s">>
T_Cell == <<"C","e","l","l"," ","A","t","l","a","s","_","2">>
T_Empty == <<>>
T_Mock(i) ==
    <<"M","o","c","k"," ","G","o","o","g","l","e"," ","S","c","h","o","l","a","r"," ","P","a","p","e","r"," ",i," ","f","o","r"," ","'","n","l","p","'">>

D_2020 == <<"2","0","2","0","-","0","1","-","0","1","T","0","0",":","0","0",":","0","0","Z">>
D_2021 == <<"2","0","2","1","-","0","1","-","0","1","T","0","0",":","0","0",":","0","0","Z">>
D_2022 == <<"2","0","2","2","-","0","1","-","0","1","T","0","0",":","0","0",":","0","0","Z">>
D_2023 == <<"2","0","2","3","-","0","1","-","0","1","T","0","0",":","0","0",":","0","0","Z">>
D_2023June == <<"2","0","2","3","-","0","6","-","0","1","T","0","0",":","0","0",":","0","0","Z">>
\* arxiv_search.py:70 writes datetime.isoformat(), with a numeric offset
D_2023Arxiv ==
    <<"2","0","2","3","-","0","1","-","0","1","T","0","0",":","0","0",":","0","0","+","0","0",":","0","0">>
D_2021Arxiv ==
    <<"2","0","2","1","-","0","1","-","0","1","T","0","0",":","0","0",":","0","0","+","0","0",":","0","0">>

PaperOf ==
    [h \in {"a1", "a2", "a3", "p1", "p2", "p3", "s1", "s2", "s3", "m1", "m2", "m3"} |->
      CASE h = "a1" -> Paper("arx/1", ARXIV, T_DeepVision, None, None, D_2023Arxiv)
        [] h = "a2" -> Paper("arx/2", ARXIV, T_Empty, None, None, D_2021Arxiv)
        [] h = "a3" -> Paper("arx/3", ARXIV, T_Graph, None, None, D_2021Arxiv)
        [] h = "p1" -> Paper("pubmed_1", PUBMED, T_DeepVisionBang, Some("10.1/x"), None, D_2020)
        [] h = "p2" -> Paper("pubmed_2", PUBMED, T_ShallowAudio, Some("10.1/x"), None, D_2023June)
        [] h = "p3" -> Paper("pubmed_3", PUBMED, T_Cell, Some("10.1/y"), None, D_2022)
        [] h = "s1" -> Paper("h1", GOOGLE_SCHOLAR, T_Seven, Some("10.1/y"), Some(5), D_2022)
        [] h = "s2" -> Paper("h2", GOOGLE_SCHOLAR, T_Six, None, Some(0), D_2023)
        [] h = "s3" -> Paper("h3", GOOGLE_SCHOLAR, T_Five, None, None, D_2020)
        [] h = "m1" -> Paper("mock1", GOOGLE_SCHOLAR, T_Mock("1"), Some("10.1000/mock.scholar.1"), Some(50), D_2023)
        [] h = "m2" -> Paper("mock2", GOOGLE_SCHOLAR, T_Mock("2"), Some("10.1000/mock.scholar.2"), Some(40), D_2022)
        [] h = "m3" -> Paper("mock3", GOOGLE_SCHOLAR, T_Mock("3"), Some("10.1000/mock.scholar.3"), Some(30), D_2021)]

Handles == DOMAIN PaperOf

\* what the upstream of each source can hold
Catalog(source) ==
    CASE source = ARXIV -> {"a1", "a2", "a3"}
      [] source = PUBMED -> {"p1", "p2", "p3"}
      [] source = GOOGLE_SCHOLAR -> {"s1", "s2"}
      [] OTHER -> {}

\* the sequences without repetition over S, of length at most n
RECURSIVE ListsOver(_, _)
ListsOver(S, n) ==
    IF n = 0 THEN {<<>>}
    ELSE LET shorter == ListsOver(S, n - 1)
         IN  shorter \cup {Append(l, x) : l \in shorter, x \in S}

Range(s) == {s[i] : i \in 1..Len(s)}
NoRepeat(s) == Cardinality(Range(s)) = Len(s)
DistinctLists(S, n) == {l \in ListsOver(S, n) : NoRepeat(l)}

\* ------------------------------------------------------------------------
\* aggregator.py:154-168  _normalize_title
\* ------------------------------------------------------------------------
UpperChars == <<"A","B","C","D","E","F","G","H","I","J","K","L","M",
                "N","O","P","Q","R","S","T","U","V","W","X","Y","Z">>
LowerChars == <<"a","b","c","d","e","f","g","h","i","j","k","l","m",
                "n","o","p","q","r","s","t","u","v","w","x","y","z">>
DigitChars == {"0","1","2","3","4","5","6","7","8","9"}
\* the characters \s matches
SpaceChars == {" ", "\t", "\n"}
\* the characters \w matches: letters, digits and the underscore
UpperSet == Range(UpperChars)
WordChars == UpperSet \cup Range(LowerChars) \cup DigitChars \cup {"_"}

\* str.lower() on one character
LowerChar(c) ==
    IF c \in UpperSet
    THEN LowerChars[CHOOSE i \in 1..Len(UpperChars) : UpperChars[i] = c]
    ELSE c
str_lower(s) == [i \in 1..Len(s) |-> LowerChar(s[i])]

\* re.sub(r'[^\w\s]', '', s): drop what is neither \w nor \s
re_sub_nonword(s) == SelectSeq(s, LAMBDA c : c \in WordChars \/ c \in SpaceChars)

\* str.split(): the maximal runs of non-whitespace, in order
RECURSIVE SplitFrom(_, _, _, _)
SplitFrom(s, i, cur, acc) ==
    IF i > Len(s)
    THEN IF cur = <<>> THEN acc ELSE Append(acc, cur)
    ELSE IF s[i] \in SpaceChars
         THEN SplitFrom(s, i + 1, <<>>, IF cur = <<>> THEN acc ELSE Append(acc, cur))
         ELSE SplitFrom(s, i + 1, Append(cur, s[i]), acc)
str_split(s) == SplitFrom(s, 1, <<>>, <<>>)

\* ' '.join(words)
RECURSIVE str_join(_)
str_join(words) ==
    IF words = <<>> THEN <<>>
    ELSE IF Len(words) = 1 THEN words[1]
    ELSE words[1] \o <<" ">> \o str_join(Tail(words))

_normalize_title(title) ==
    IF title = <<>> THEN <<>>
    ELSE str_join(str_split(re_sub_nonword(str_lower(title))))

\* ------------------------------------------------------------------------
\* aggregator.py:183-200  _calculate_title_similarity
\* The float len(intersection) / len(union) is kept as the exact fraction
\* <<numerator, denominator>>; 0.0 is <<0, 1>>.
\* ------------------------------------------------------------------------
_calculate_title_similarity(title1, title2) ==
    IF title1 = <<>> \/ title2 = <<>> THEN <<0, 1>>
    ELSE LET words1 == Range(str_split(title1))
             words2 == Range(str_split(title2))
         IN  IF words1 = {} \/ words2 = {} THEN <<0, 1>>
             ELSE <<Cardinality(words1 \cap words2), Cardinality(words1 \cup words2)>>

\* a duplicate already at four shared words of five
ExceedsLowerThreshold(ratio) == 100 * ratio[1] >= 80 * ratio[2]

\* aggregator.py:178  the literal 0.85, in hundredths
SimilarityThreshold == 85
\* ratio > 0.85   (for these small integers the float comparison is exact)
ExceedsThreshold(ratio) == 100 * ratio[1] > SimilarityThreshold * ratio[2]

\* a test that finds only the titles already seen letter for letter
_is_similar_title_exact(title, seen_titles) ==
    title # <<>> /\ title \in seen_titles

\* aggregator.py:170-181  _is_similar_title
_is_similar_title(title, seen_titles) ==
    IF title = <<>> THEN FALSE
    ELSE \E seen_title \in seen_titles :
            ExceedsThreshold(_calculate_title_similarity(title, seen_title))

\* Python truthiness of paper.doi (None and "" are false)
DoiTruthy(doi) == doi # None /\ doi[1] # ""

\* aggregator.py:118-152  _deduplicate_papers, the loop from index i on
RECURSIVE DedupLoop(_, _, _, _, _)
DedupLoop(papers, i, seen_dois, seen_titles, unique_papers) ==
    IF i > Len(papers) THEN unique_papers
    ELSE LET paper == PaperOf[papers[i]]
             normalized_title == _normalize_title(paper.title)
         IN  IF DoiTruthy(paper.doi) /\ paper.doi[1] \in seen_dois
             THEN DedupLoop(papers, i + 1, seen_dois, seen_titles, unique_papers)
             ELSE IF _is_similar_title(normalized_title, seen_titles)
             THEN DedupLoop(papers, i + 1, seen_dois, seen_titles, unique_papers)
             ELSE DedupLoop(papers, i + 1,
                            IF DoiTruthy(paper.doi)
                            THEN seen_dois \cup {paper.doi[1]} ELSE seen_dois,
                            seen_titles \cup {normalized_title},
                            Append(unique_papers, papers[i]))

\* a loop that starts at the second paper of the pool
_deduplicate_papers_from_second(papers) ==
    IF papers = <<>> THEN <<>>
    ELSE DedupLoop(papers, 2, {}, {}, <<>>)

_deduplicate_papers(papers) ==
    IF papers = <<>> THEN <<>>
    ELSE DedupLoop(papers, 1, {}, {}, <<>>)

\* ------------------------------------------------------------------------
\* aggregator.py:202-240  _sort_papers
\* ------------------------------------------------------------------------
\* code points of the characters of a published string
CharOrd(c) ==
    CASE c = "+" -> 43 [] c = "-" -> 45
      [] c = "0" -> 48 [] c = "1" -> 49 [] c = "2" -> 50 [] c = "3" -> 51
      [] c = "4" -> 52 [] c = "5" -> 53 [] c = "6" -> 54 [] c = "7" -> 55
      [] c = "8" -> 56 [] c = "9" -> 57 [] c = ":" -> 58
      [] c = "T" -> 84 [] c = "Z" -> 90

\* Python's s < t on str: by code point, a proper prefix is smaller
RECURSIVE StrLessFrom(_, _, _)
StrLessFrom(s, t, i) ==
    IF i > Len(s) THEN i <= Len(t)
    ELSE IF i > Len(t) THEN FALSE
    ELSE IF s[i] = t[i] THEN StrLessFrom(s, t, i + 1)
    ELSE CharOrd(s[i]) < CharOrd(t[i])
StrLess(s, t) == StrLessFrom(s, t, 1)

\* an absent citation count taken for no citation
CitationOrZero(paper) ==
    IF paper.citation_count # None THEN paper.citation_count[1] ELSE 0

\* aggregator.py:221-225  citation_key: the count, or -1 when it is None
CitationOrMinusOne(paper) ==
    IF paper.citation_count # None THEN paper.citation_count[1] ELSE -1

\* key(a) < key(b) for the key function of the given sort order
KeyLess(sort_by, a, b) ==
    IF sort_by = RECENT
    THEN StrLess(PaperOf[a].published, PaperOf[b].published)
    ELSE \/ CitationOrMinusOne(PaperOf[a]) < CitationOrMinusOne(PaperOf[b])
         \/ /\ CitationOrMinusOne(PaperOf[a]) = CitationOrMinusOne(PaperOf[b])
            /\ StrLess(PaperOf[a].published, PaperOf[b].published)

\* an insertion that puts x before the elements whose key equals its own
RECURSIVE InsertDescendingUnstable(_, _, _)
InsertDescendingUnstable(sort_by, sorted, x) ==
    IF sorted = <<>> THEN <<x>>
    ELSE IF ~KeyLess(sort_by, x, Head(sorted))
         THEN <<x>> \o sorted
         ELSE <<Head(sorted)>> \o InsertDescendingUnstable(sort_by, Tail(sorted), x)

\* an insertion that leaves x out when an element has the key of x
RECURSIVE InsertDescendingDroppingTies(_, _, _)
InsertDescendingDroppingTies(sort_by, sorted, x) ==
    IF sorted = <<>> THEN <<x>>
    ELSE IF KeyLess(sort_by, Head(sorted), x)
         THEN <<x>> \o sorted
         ELSE IF ~KeyLess(sort_by, x, Head(sorted))
         THEN sorted
         ELSE <<Head(sorted)>> \o InsertDescendingDroppingTies(sort_by, Tail(sorted), x)

\* sorted(..., reverse=True) is stable: x goes behind every element whose key
\* is not smaller than its own
RECURSIVE InsertDescending(_, _, _)
InsertDescending(sort_by, sorted, x) ==
    IF sorted = <<>> THEN <<x>>
    ELSE IF KeyLess(sort_by, Head(sorted), x)
         THEN <<x>> \o sorted
         ELSE <<Head(sorted)>> \o InsertDescending(sort_by, Tail(sorted), x)

RECURSIVE SortedDescending(_, _, _)
SortedDescending(sort_by, papers, n) ==
    IF n = 0 THEN <<>>
    ELSE InsertDescending(sort_by, SortedDescending(sort_by, papers, n - 1), papers[n])

\* aggregator.py:242-260  _sort_by_relevance_with_diversity
\* the keys of source_groups, in insertion order
RECURSIVE SourceOrder(_, _)
SourceOrder(papers, n) ==
    IF n = 0 THEN <<>>
    ELSE LET before == SourceOrder(papers, n - 1)
             src == PaperOf[papers[n]].source
         IN  IF src \in Range(before) THEN before ELSE Append(before, src)

source_group(papers, source) ==
    SelectSeq(papers, LAMBDA h : PaperOf[h].source = source)

\* the inner loop over source_groups.items() for one i, from the k-th key on
RECURSIVE RoundFrom(_, _, _, _)
RoundFrom(papers, order, i, k) ==
    IF k > Len(order) THEN <<>>
    ELSE LET group == source_group(papers, order[k])
         IN  (IF i <= Len(group) THEN <<group[i]>> ELSE <<>>)
             \o RoundFrom(papers, order, i, k + 1)

\* the outer loop for i in range(max_length), from round i on
RECURSIVE RoundsFrom(_, _, _, _)
RoundsFrom(papers, order, i, max_length) ==
    IF i > max_length THEN <<>>
    ELSE RoundFrom(papers, order, i, 1) \o RoundsFrom(papers, order, i + 1, max_length)

SetMax(S) == CHOOSE m \in S : \A x \in S : x <= m

\* the relevance order left as the deduplicated pool has it
_sort_by_relevance_unmixed(papers) == papers

_sort_by_relevance_with_diversity(papers) ==
    LET order == SourceOrder(papers, Len(papers))
        max_length == IF order = <<>> THEN 0
                      ELSE SetMax({Len(source_group(papers, order[k])) : k \in 1..Len(order)})
    IN  RoundsFrom(papers, order, 1, max_length)

_sort_papers(papers, sort_by) ==
    IF papers = <<>> THEN papers
    ELSE IF sort_by = RECENT THEN SortedDescending(RECENT, papers, Len(papers))
    ELSE IF sort_by = CITED THEN SortedDescending(CITED, papers, Len(papers))
    ELSE _sort_by_relevance_with_diversity(papers)

\* papers[:n]
Prefix(papers, n) == SubSeq(papers, 1, IF n < Len(papers) THEN n ELSE Len(papers))

\* ------------------------------------------------------------------------
\* State
\* ------------------------------------------------------------------------
VARIABLES
    \* search_all_sources: position of the call and its arguments
    pc, sources, max_results, sort_by, user_id,
    \* the per-source tasks, in creation order (tasks / source_names)
    tasks,
    \* the locals all_papers, unique_papers, sorted_papers and the value returned
    all_papers, unique_papers, sorted_papers, final_results,
    \* how the call ended: "none", "return", "caught" (the except clause of
    \* line 93 returned []) or "escaped" (an exception reached the caller)
    ending,
    \* GoogleScholarSearcher: api_key, SERPAPI_AVAILABLE, whether the file
    \* .scholar_usage.json can be read and written, its content, and the date
    api_key, serpapi_available, file_ok, usage, today,
    \* callers of GoogleScholarSearcher.search, and per user the latest day
    \* on which a search of that user that has returned was made (0: none)
    calls, served,
    \* process_search_task: its position, its search_request, its locals
    \* papers_with_analysis and e, whether an exception left it
    tpc, request, papers_with_analysis, exc,
    \* the session document of the storage: status, error_message,
    \* results_count, and the papers stored under the session
    status, error_message, results_count, stored

aggVars == <<pc, sources, max_results, sort_by, user_id, tasks,
             all_papers, unique_papers, sorted_papers, final_results, ending>>
gsVars == <<api_key, serpapi_available, file_ok, usage, today>>
callVars == <<calls, served>>
taskVars == <<tpc, request, papers_with_analysis, exc>>
docVars == <<status, error_message, results_count, stored>>
vars == <<aggVars, gsVars, callVars, taskVars, docVars>>

\* ------------------------------------------------------------------------
\* Input sets
\* ------------------------------------------------------------------------
Users == {"default", "alice"}
\* last day of the calendar of the model
MaxDay == 2

\* the sources arguments tried: empty, unsupported only, one, several, repeated
SourceLists ==
    {<<>>, <<IEEE>>, <<ARXIV>>, <<GOOGLE_SCHOLAR>>, <<ARXIV, IEEE>>,
     <<ARXIV, PUBMED>>, <<PUBMED, ARXIV>>, <<GOOGLE_SCHOLAR, PUBMED>>,
     <<GOOGLE_SCHOLAR, GOOGLE_SCHOLAR>>}

\* aggregator.py:19-24  the keys of self.sources
ConfiguredSources == {ARXIV, GOOGLE_SCHOLAR, PUBMED}

\* a value or a raised exception
Value(v) == [raised |-> FALSE, value |-> v]
Raised == [raised |-> TRUE, value |-> <<>>]

\* what a searcher, or the upstream of one, can answer: a list of its papers,
\* or an exception
SearcherOutcomes(source) ==
    {Raised} \cup {Value(l) : l \in DistinctLists(Catalog(source), MaxPerSource)}

\* ------------------------------------------------------------------------
\* google_scholar.py : GoogleScholarSearcher
\* usage is the content of the file: user |-> None or
\* Some([last_search_date, usage_count])
\* ------------------------------------------------------------------------
\* google_scholar.py:28
daily_limit_per_user == 1

\* a check that lets a user through who has used the whole allowance
_check_rate_limit_inclusive(file, readable, user, day) ==
    IF ~readable THEN TRUE
    ELSE IF file[user] = None THEN TRUE
    ELSE IF file[user][1].last_search_date # day THEN TRUE
    ELSE file[user][1].usage_count <= daily_limit_per_user

\* google_scholar.py:30-55  _check_rate_limit; every exception gives True
_check_rate_limit(file, readable, user, day) ==
    IF ~readable THEN TRUE
    ELSE IF file[user] = None THEN TRUE
    ELSE IF file[user][1].last_search_date # day THEN TRUE
    ELSE file[user][1].usage_count < daily_limit_per_user

\* an update whose write never reaches the usage file
_update_rate_limit_lost(file, writable, user, day) == file

\* an update that starts the count again at 1 every time
_update_rate_limit_restarting(file, writable, user, day) ==
    IF ~writable THEN file
    ELSE [file EXCEPT ![user] = Some([last_search_date |-> day, usage_count |-> 1])]

\* google_scholar.py:57-89  _update_rate_limit; an exception leaves the file
_update_rate_limit(file, writable, user, day) ==
    IF ~writable THEN file
    ELSE IF file[user] = None \/ file[user][1].last_search_date # day
    THEN [file EXCEPT ![user] = Some([last_search_date |-> day, usage_count |-> 1])]
    ELSE [file EXCEPT ![user] =
            Some([last_search_date |-> day,
                  usage_count |-> file[user][1].usage_count + 1])]

\* google_scholar.py:126-146  _mock_scholar_results: min(max_results, 3) papers
MockLimit == 3
_mock_scholar_results(n) ==
    Prefix(<<"m1", "m2", "m3">>, IF n < MockLimit THEN n ELSE MockLimit)

\* a search that suspends between the check and the update of the counter
ScholarSearchSyncUpdateLater(file, key, available, ok, user, day, n) ==
    IF ~_check_rate_limit(file, ok, user, day)
    THEN [step |-> "return", papers |-> <<>>, file |-> file]
    ELSE IF key = None \/ ~available
    THEN [step |-> "return", papers |-> _mock_scholar_results(n), file |-> file]
    ELSE [step |-> "await", papers |-> <<>>, file |-> file]

\* google_scholar.py:93-105  search up to its first await: the check, the
\* mock results, the update of the counter
ScholarSearchSync(file, key, available, ok, user, day, n) ==
    IF ~_check_rate_limit(file, ok, user, day)
    THEN [step |-> "return", papers |-> <<>>, file |-> file]
    ELSE IF key = None \/ ~available
    THEN [step |-> "return", papers |-> _mock_scholar_results(n), file |-> file]
    ELSE [step |-> "await", papers |-> <<>>,
          file |-> _update_rate_limit(file, ok, user, day)]

\* google_scholar.py:110-124  the request in the executor returns the papers
\* _search_sync parsed; an exception gives []
ScholarSearchAwait(outcome) ==
    IF outcome.raised THEN Value(<<>>) ELSE outcome

\* ------------------------------------------------------------------------
\* aggregator.py : search_all_sources
\* ------------------------------------------------------------------------
\* every searcher asked for the whole of max_results
results_per_source_whole(mr, srcs) ==
    IF Len(srcs) = 0 THEN Raised ELSE Value(mr)

\* aggregator.py:42  max(1, max_results // len(sources)); ZeroDivisionError
results_per_source(mr, srcs) ==
    IF Len(srcs) = 0 THEN Raised
    ELSE LET q == mr \div Len(srcs) IN Value(IF q > 1 THEN q ELSE 1)

\* aggregator.py:48-58  one task per source that has an adapter, made to ask
\* its searcher for results_per_source papers
CreateTasks(srcs, budget) ==
    LET known == SelectSeq(srcs, LAMBDA src : src \in ConfiguredSources)
    IN  [i \in 1..Len(known) |->
            [source |-> known[i], asked |-> budget, state |-> "created",
             answer |-> Value(<<>>), result |-> Value(<<>>), finished |-> 0]]

\* the place of the task that finishes now among the tasks of the call, in
\* the order in which they finish
FinishedNow(ts) ==
    1 + Cardinality({j \in 1..Len(ts) : ts[j].state = "done"})

\* a wrapper that awaits the searcher and drops what it returned
_safe_search_unreturned(outcome) == Value(<<>>)

\* aggregator.py:108-116  _safe_search: an exception of searcher.search
\* becomes the empty list
_safe_search(outcome) ==
    IF outcome.raised THEN Value(<<>>) ELSE outcome

\* a gather that lists the results in the order the tasks finished
gather_as_completed(ts) ==
    [k \in 1..Len(ts) |->
        ts[CHOOSE i \in 1..Len(ts) : ts[i].finished = k].result]

\* aggregator.py:66  gather(*tasks, return_exceptions=True): the results in
\* task order, an exception of a task as a value of the list
gather(ts) == [i \in 1..Len(ts) |-> ts[i].result]

\* aggregator.py:69-81  the loop over results: exceptions are skipped
RECURSIVE ProcessResults(_, _)
ProcessResults(results, n) ==
    IF n = 0 THEN <<>>
    ELSE IF results[n].raised THEN ProcessResults(results, n - 1)
    ELSE ProcessResults(results, n - 1) \o results[n].value

\* the pipeline without the slice of its last line
TruncateOmitted(papers, mr) == papers

\* aggregator.py:88  sorted_papers[:max_results]
Truncate(papers, mr) == Prefix(papers, mr)

\* the body without its except clause: the exception leaves the call
TopLevelHandlerReraise(outcome) ==
    IF outcome.raised THEN [ending |-> "escaped", value |-> <<>>]
    ELSE [ending |-> "return", value |-> outcome.value]

\* aggregator.py:93-95  the except clause around the whole body
TopLevelHandler(outcome) ==
    IF outcome.raised THEN [ending |-> "caught", value |-> <<>>]
    ELSE [ending |-> "return", value |-> outcome.value]

ClearLocals ==
    /\ all_papers' = <<>>
    /\ unique_papers' = <<>>
    /\ sorted_papers' = <<>>

\* aggregator.py:38-62  the call up to the gather
BeginCall(srcs, mr, sb, uid) ==
    LET budget == results_per_source(mr, srcs)
        created == IF budget.raised THEN <<>> ELSE CreateTasks(srcs, budget.value)
        early == TopLevelHandler(IF budget.raised THEN Raised ELSE Value(<<>>))
    IN  /\ sources' = srcs
        /\ max_results' = mr
        /\ sort_by' = sb
        /\ user_id' = uid
        /\ tasks' = created
        /\ IF created = <<>>
           THEN /\ pc' = "returned"
                /\ ending' = early.ending
                /\ final_results' = early.value
           ELSE /\ pc' = "gather"
                /\ UNCHANGED <<ending, final_results>>
        /\ ClearLocals

StartSearch ==
    /\ pc = "idle"
    /\ \E srcs \in SourceLists, mr \in 1..MaxResults, sb \in SortBy, uid \in Users :
         BeginCall(srcs, mr, sb, uid)
    /\ UNCHANGED <<gsVars, callVars, taskVars, docVars>>

\* a task of ArxivSearcher / PubMedSearcher runs _safe_search to its end
SearchTask(i) ==
    /\ pc = "gather"
    /\ i \in 1..Len(tasks)
    /\ tasks[i].state = "created"
    /\ tasks[i].source # GOOGLE_SCHOLAR
    /\ \E outcome \in SearcherOutcomes(tasks[i].source) :
         tasks' = [tasks EXCEPT ![i].state = "done",
                                ![i].answer = outcome,
                                ![i].result = _safe_search(outcome),
                                ![i].finished = FinishedNow(tasks)]
    /\ UNCHANGED <<pc, sources, max_results, sort_by, user_id, all_papers,
                   unique_papers, sorted_papers, final_results, ending,
                   gsVars, callVars, taskVars, docVars>>

\* the task of GoogleScholarSearcher runs search up to its first await
ScholarTaskBegin(i) ==
    /\ pc = "gather"
    /\ i \in 1..Len(tasks)
    /\ tasks[i].state = "created"
    /\ tasks[i].source = GOOGLE_SCHOLAR
    /\ LET budget == tasks[i].asked
           sync == ScholarSearchSync(usage, api_key, serpapi_available, file_ok,
                                     user_id, today, budget)
       IN  /\ usage' = sync.file
           /\ tasks' = IF sync.step = "return"
                       THEN [tasks EXCEPT ![i].state = "done",
                                          ![i].answer = Value(sync.papers),
                                          ![i].result = _safe_search(Value(sync.papers)),
                                          ![i].finished = FinishedNow(tasks)]
                       ELSE [tasks EXCEPT ![i].state = "upstream"]
    /\ UNCHANGED <<pc, sources, max_results, sort_by, user_id, all_papers,
                   unique_papers, sorted_papers, final_results, ending,
                   api_key, serpapi_available, file_ok, today, callVars,
                   taskVars, docVars>>

\* the request of the Google Scholar task to SerpAPI comes back
ScholarTaskEnd(i) ==
    /\ pc = "gather"
    /\ i \in 1..Len(tasks)
    /\ tasks[i].state = "upstream"
    /\ \E outcome \in SearcherOutcomes(GOOGLE_SCHOLAR) :
         tasks' = [tasks EXCEPT ![i].state = "done",
                                ![i].answer = ScholarSearchAwait(outcome),
                                ![i].result = _safe_search(ScholarSearchAwait(outcome)),
                                ![i].finished = FinishedNow(tasks)]
    /\ UNCHANGED <<pc, sources, max_results, sort_by, user_id, all_papers,
                   unique_papers, sorted_papers, final_results, ending,
                   gsVars, callVars, taskVars, docVars>>

\* a call that goes on as soon as one task has finished, the others taken
\* as having found nothing
GatheredFirstCompleted ==
    /\ pc = "gather"
    /\ \E i \in 1..Len(tasks) : tasks[i].state = "done"
    /\ all_papers' = ProcessResults(gather(tasks), Len(tasks))
    /\ unique_papers' = _deduplicate_papers(all_papers')
    /\ sorted_papers' = _sort_papers(unique_papers', sort_by)
    /\ LET out == TopLevelHandler(Value(Truncate(sorted_papers', max_results)))
       IN  /\ final_results' = out.value
           /\ ending' = out.ending
    /\ pc' = "returned"
    /\ UNCHANGED <<sources, max_results, sort_by, user_id, tasks, gsVars, callVars, taskVars, docVars>>

\* aggregator.py:66-91  the gather has every result: pool, dedup, sort, cut
Gathered ==
    /\ pc = "gather"
    /\ \A i \in 1..Len(tasks) : tasks[i].state = "done"
    /\ all_papers' = ProcessResults(gather(tasks), Len(tasks))
    /\ unique_papers' = _deduplicate_papers(all_papers')
    /\ sorted_papers' = _sort_papers(unique_papers', sort_by)
    /\ LET out == TopLevelHandler(Value(Truncate(sorted_papers', max_results)))
       IN  /\ final_results' = out.value
           /\ ending' = out.ending
    /\ pc' = "returned"
    /\ UNCHANGED <<sources, max_results, sort_by, user_id, tasks, gsVars, callVars, taskVars, docVars>>

\* aggregator.py:66-91  the step of Gathered, told by its guard and by the
\* return of the call: the only step from "gather" to "returned"
GatheredReturns ==
    /\ pc = "gather"
    /\ \A i \in 1..Len(tasks) : tasks[i].state = "done"
    /\ pc' = "returned"

InitAgg ==
    /\ pc = "idle"
    /\ sources = <<>>
    /\ max_results = 1
    /\ sort_by = RELEVANCE
    /\ user_id = "default"
    /\ tasks = <<>>
    /\ all_papers = <<>>
    /\ unique_papers = <<>>
    /\ sorted_papers = <<>>
    /\ final_results = <<>>
    /\ ending = "none"

InitScholar ==
    /\ usage = [u \in Users |-> None]
    /\ today = 1
    /\ calls = <<>>
    /\ served = [u \in Users |-> 0]

\* no session
InitTask ==
    /\ tpc = "none"
    /\ request = <<>>
    /\ papers_with_analysis = <<>>
    /\ exc = None
    /\ status = "absent"
    /\ error_message = None
    /\ results_count = 0
    /\ stored = None

\* One call of search_all_sources on a fresh aggregator, the SerpAPI client
\* installed and the usage file accessible, with or without an API key.
Init ==
    /\ InitAgg
    /\ InitScholar
    /\ InitTask
    /\ api_key \in {None, Some("key")}
    /\ serpapi_available = TRUE
    /\ file_ok = TRUE

Next ==
    \/ StartSearch
    \/ \E i \in 1..2 : SearchTask(i)
    \/ \E i \in 1..2 : ScholarTaskBegin(i)
    \/ \E i \in 1..2 : ScholarTaskEnd(i)
    \/ Gathered

Spec == Init /\ [][Next]_vars

\* aggregator.py:66  the event loop resumes search_all_sources once the
\* gather has every result; nothing makes a searcher answer
SpecGather == Spec /\ WF_pc(GatheredReturns)

\* ------------------------------------------------------------------------
\* The pure steps of the pipeline on candidate pools of their own:
\* unique_papers = _deduplicate_papers(all_papers), then
\* sorted_papers = _sort_papers(unique_papers, sort_by)   (aggregator.py:84-85)
\* ------------------------------------------------------------------------
PoolPapers == Handles \ {"m1", "m2", "m3"}

Deduplicate ==
    /\ pc = "pool"
    /\ unique_papers' = _deduplicate_papers(all_papers)
    /\ pc' = "deduped"
    /\ UNCHANGED <<sources, max_results, sort_by, user_id, tasks, all_papers,
                   sorted_papers, final_results, ending, gsVars, callVars, taskVars, docVars>>

\* _deduplicate_papers called on the list it has returned
DeduplicateAgain ==
    /\ pc = "deduped"
    /\ all_papers' = unique_papers
    /\ unique_papers' = _deduplicate_papers(unique_papers)
    /\ pc' = "again"
    /\ UNCHANGED <<sources, max_results, sort_by, user_id, tasks,
                   sorted_papers, final_results, ending, gsVars, callVars, taskVars, docVars>>

Sort ==
    /\ pc = "deduped"
    /\ \E sb \in SortBy :
         /\ sort_by' = sb
         /\ sorted_papers' = _sort_papers(unique_papers, sb)
    /\ pc' = "sorted"
    /\ UNCHANGED <<sources, max_results, user_id, tasks, all_papers,
                   unique_papers, final_results, ending, gsVars, callVars, taskVars, docVars>>

InitPool ==
    /\ pc = "pool"
    /\ all_papers \in ListsOver(PoolPapers, MaxPool)
    /\ sources = <<>>
    /\ max_results = 1
    /\ sort_by = RELEVANCE
    /\ user_id = "default"
    /\ tasks = <<>>
    /\ unique_papers = <<>>
    /\ sorted_papers = <<>>
    /\ final_results = <<>>
    /\ ending = "none"
    /\ InitScholar
    /\ InitTask
    /\ api_key = None
    /\ serpapi_available = TRUE
    /\ file_ok = TRUE

NextPool == Deduplicate \/ DeduplicateAgain \/ Sort

SpecPool == InitPool /\ [][NextPool]_vars

\* ------------------------------------------------------------------------
\* GoogleScholarSearcher.search called by clients of its own, in every
\* configuration of the adapter, over several days
\* ------------------------------------------------------------------------
Clients == {1, 2}

IdleCall == [state |-> "idle", user |-> "default", began |-> 0, prior |-> FALSE,
             upstream |-> FALSE, result |-> <<>>]

\* google_scholar.py:91-105  a client calls search(query, n, None, u)
ScholarCall(c) ==
    /\ calls[c].state \in {"idle", "done"}
    /\ \E u \in Users, n \in 1..MaxResults :
         LET sync == ScholarSearchSync(usage, api_key, serpapi_available, file_ok,
                                       u, today, n)
         IN  /\ usage' = sync.file
             /\ IF sync.step = "return"
                THEN /\ calls' = [calls EXCEPT ![c] =
                                    [state |-> "done", user |-> u, began |-> today,
                                     prior |-> (served[u] = today),
                                     upstream |-> FALSE, result |-> sync.papers]]
                     /\ served' = [served EXCEPT ![u] = today]
                ELSE /\ calls' = [calls EXCEPT ![c] =
                                    [state |-> "upstream", user |-> u, began |-> today,
                                     prior |-> (served[u] = today),
                                     upstream |-> TRUE, result |-> <<>>]]
                     /\ served' = served
    /\ UNCHANGED <<aggVars, api_key, serpapi_available, file_ok, today,
                   taskVars, docVars>>

\* a search that gives the allowance back when SerpAPI failed or found nothing
ScholarReplyRefunding(c) ==
    /\ calls[c].state = "upstream"
    /\ \E outcome \in SearcherOutcomes(GOOGLE_SCHOLAR) :
         /\ calls' = [calls EXCEPT ![c].state = "done",
                                   ![c].result = ScholarSearchAwait(outcome).value]
         /\ usage' = IF ScholarSearchAwait(outcome).value = <<>>
                      THEN [usage EXCEPT ![calls[c].user] = None]
                      ELSE usage
    /\ served' = [served EXCEPT ![calls[c].user] =
                     IF calls[c].began > @ THEN calls[c].began ELSE @]
    /\ UNCHANGED <<aggVars, api_key, serpapi_available, file_ok, today, taskVars,
                   docVars>>

\* google_scholar.py:110-124  the request to SerpAPI comes back and search
\* returns
ScholarReply(c) ==
    /\ calls[c].state = "upstream"
    /\ \E outcome \in SearcherOutcomes(GOOGLE_SCHOLAR) :
         calls' = [calls EXCEPT ![c].state = "done",
                                ![c].result = ScholarSearchAwait(outcome).value]
    /\ served' = [served EXCEPT ![calls[c].user] =
                     IF calls[c].began > @ THEN calls[c].began ELSE @]
    /\ UNCHANGED <<aggVars, gsVars, taskVars, docVars>>

\* midnight passes
NextDay ==
    /\ today < MaxDay
    /\ today' = today + 1
    /\ UNCHANGED <<aggVars, api_key, serpapi_available, file_ok, usage, callVars,
                   taskVars, docVars>>

InitCalls ==
    /\ InitAgg
    /\ InitTask
    /\ usage = [u \in Users |-> None]
    /\ today = 1
    /\ calls = [c \in Clients |-> IdleCall]
    /\ served = [u \in Users |-> 0]
    /\ api_key \in {None, Some("key")}
    /\ serpapi_available \in BOOLEAN
    /\ file_ok \in BOOLEAN

NextCalls ==
    \/ \E c \in Clients : ScholarCall(c)
    \/ \E c \in Clients : ScholarReply(c)
    \/ NextDay

SpecScholar == InitCalls /\ [][NextCalls]_vars

\* ------------------------------------------------------------------------
\* _check_rate_limit and _update_rate_limit called on every content of the
\* usage file: records of any day with any count, a record read without
\* its usage_count counting as 0 (google_scholar.py:45, 81)
\* ------------------------------------------------------------------------
MaxCount == 2

UsageRecords ==
    {None} \cup {Some([last_search_date |-> d, usage_count |-> n]) :
                    d \in 1..MaxDay, n \in 0..MaxCount}

\* google_scholar.py:30-55  _check_rate_limit(u) is called
CheckRateLimit ==
    /\ \E u \in Users :
         calls' = <<[op |-> "check", user |-> u, day |-> today, before |-> usage,
                     answer |-> _check_rate_limit(usage, file_ok, u, today)]>>
    /\ UNCHANGED <<aggVars, gsVars, served, taskVars, docVars>>

\* google_scholar.py:57-89  _update_rate_limit(u) is called
UpdateRateLimit ==
    /\ \E u \in Users :
         /\ IF usage[u] = None THEN TRUE
            ELSE IF usage[u][1].last_search_date # today THEN TRUE
            ELSE usage[u][1].usage_count < MaxCount
         /\ usage' = _update_rate_limit(usage, file_ok, u, today)
         /\ calls' = <<[op |-> "update", user |-> u, day |-> today, before |-> usage,
                        answer |-> TRUE]>>
    /\ UNCHANGED <<aggVars, api_key, serpapi_available, file_ok, today, served,
                   taskVars, docVars>>

InitStore ==
    /\ InitAgg
    /\ InitTask
    /\ usage \in [Users -> UsageRecords]
    /\ today \in 1..MaxDay
    /\ calls = <<>>
    /\ served = [u \in Users |-> 0]
    /\ api_key = Some("key")
    /\ serpapi_available = TRUE
    /\ file_ok \in BOOLEAN

NextStore == CheckRateLimit \/ UpdateRateLimit \/ NextDay

SpecStore == InitStore /\ [][NextStore]_vars

\* ------------------------------------------------------------------------
\* api/v1/endpoints/search.py : process_search_task, with the session
\* document of storage/firestore_manager.py
\* ------------------------------------------------------------------------
\* the search requests tried (models/search.py:26-47: sources is not empty,
\* max_results >= 1)
RequestSources == {<<IEEE>>, <<ARXIV>>, <<GOOGLE_SCHOLAR, PUBMED>>}
Requests ==
    [sources : RequestSources, max_results : 1..MaxResults, sort_by : {RELEVANCE, CITED},
     generate_analysis : BOOLEAN, user : Users]

\* the exceptions the collaborators raise: str(e), and the await that raised
E_STATUS == "update_session_status failed"
E_STORE == "store_papers failed"
E_USAGE == "increment_api_usage failed"
Exception(message, raised_at) == Some([message |-> message, raised_at |-> raised_at])
NO_PAPERS == "No papers found for the given query"

\* firestore_manager.py:56-93  update_session_status: the fields written;
\* error_message and results_count only when they are given
update_session_status(doc, new_status, message, count) ==
    [status |-> new_status,
     error_message |-> IF message # None THEN message ELSE doc.error_message,
     results_count |-> IF count # None THEN count[1] ELSE doc.results_count]

SessionDoc == [status |-> status, error_message |-> error_message,
               results_count |-> results_count]

WriteDoc(doc) ==
    /\ status' = doc.status
    /\ error_message' = doc.error_message
    /\ results_count' = doc.results_count

\* search.py:41-50, firestore_manager.py:21-50  POST /search: create_session
\* stores the session as PENDING and the background task is scheduled
CreateSession ==
    /\ tpc = "none"
    /\ \E r \in Requests : request' = r
    /\ status' = PENDING
    /\ error_message' = None
    /\ results_count' = 0
    /\ stored' = None
    /\ tpc' = "scheduled"
    /\ UNCHANGED <<aggVars, gsVars, callVars, papers_with_analysis, exc>>

\* a task that goes on to the search when the PROCESSING update is refused
TaskProcessingUnchecked ==
    /\ tpc = "scheduled"
    /\ \E ok \in BOOLEAN :
         IF ok
         THEN WriteDoc(update_session_status(SessionDoc, PROCESSING, None, None))
         ELSE UNCHANGED <<status, error_message, results_count>>
    /\ tpc' = "search"
    /\ UNCHANGED <<aggVars, gsVars, callVars, request, papers_with_analysis, exc,
                   stored>>

\* search.py:211-213  the PROCESSING update, which the storage can refuse
TaskProcessing ==
    /\ tpc = "scheduled"
    /\ \E ok \in BOOLEAN :
         IF ok
         THEN /\ WriteDoc(update_session_status(SessionDoc, PROCESSING, None, None))
              /\ tpc' = "search"
              /\ exc' = exc
         ELSE /\ UNCHANGED <<status, error_message, results_count>>
              /\ tpc' = "except"
              /\ exc' = Exception(E_STATUS, "processing")
    /\ UNCHANGED <<aggVars, gsVars, callVars, request, papers_with_analysis, stored>>

\* search.py:216-222  search_all_sources is called, without a user_id
TaskSearch ==
    /\ tpc = "search"
    /\ pc = "idle"
    /\ BeginCall(request.sources, request.max_results, request.sort_by, "default")
    /\ tpc' = "searching"
    /\ UNCHANGED <<gsVars, callVars, request, papers_with_analysis, exc, docVars>>

\* an empty result recorded as a failure of the search
TaskNoPapersAsFailure ==
    /\ tpc = "searching"
    /\ pc = "returned"
    /\ final_results = <<>>
    /\ WriteDoc(update_session_status(SessionDoc, FAILED, Some(NO_PAPERS), None))
    /\ tpc' = "finished"
    /\ UNCHANGED <<aggVars, gsVars, callVars, request, papers_with_analysis, exc, stored>>

\* search.py:224-229  no papers: COMPLETED with a message, and return
TaskNoPapers ==
    /\ tpc = "searching"
    /\ pc = "returned"
    /\ final_results = <<>>
    /\ \E ok \in BOOLEAN :
         IF ok
         THEN /\ WriteDoc(update_session_status(SessionDoc, COMPLETED,
                                                Some(NO_PAPERS), None))
              /\ tpc' = "finished"
              /\ exc' = exc
         ELSE /\ UNCHANGED <<status, error_message, results_count>>
              /\ tpc' = "except"
              /\ exc' = Exception(E_STATUS, "no_papers")
    /\ UNCHANGED <<aggVars, gsVars, callVars, request, papers_with_analysis, stored>>

\* vertex_ai.py:155-231  what analyze_papers_batch answers, every exception
\* caught inside it: one analysis per paper, that of a paper whose analysis
\* failed carrying the failure text
AnalysesOf(papers, failed) ==
    [i \in 1..Len(papers) |->
        [paper_id |-> PaperOf[papers[i]].id, failed |-> i \in failed]]
FailedChoices(n) == {{}} \cup {{i} : i \in 1..n}

\* a lookup that finds no analysis under the id of the paper
analysis_map_get_missing(analyses, id) == None

\* search.py:240, 243  analysis_map.get(paper.id): the last analysis with
\* that paper_id, or None
analysis_map_get(analyses, id) ==
    LET at == {i \in 1..Len(analyses) : analyses[i].paper_id = id}
    IN  IF at = {} THEN None ELSE Some(analyses[SetMax(at)])

\* search.py:234-252  the pairs PaperWithAnalysis(paper, analysis)
PairsWithAnalysis(papers, analyses) ==
    [i \in 1..Len(papers) |->
        [paper |-> papers[i],
         analysis |-> analysis_map_get(analyses, PaperOf[papers[i]].id)]]
PairsWithoutAnalysis(papers) ==
    [i \in 1..Len(papers) |-> [paper |-> papers[i], analysis |-> None]]

\* search.py:231-252  papers found: the analyses, when they are requested
TaskAnalyze ==
    /\ tpc = "searching"
    /\ pc = "returned"
    /\ final_results # <<>>
    /\ IF request.generate_analysis
       THEN \E failed \in FailedChoices(Len(final_results)) :
               /\ papers_with_analysis' =
                      PairsWithAnalysis(final_results,
                                        AnalysesOf(final_results, failed))
               /\ tpc' = "store"
               /\ exc' = exc
       ELSE /\ papers_with_analysis' = PairsWithoutAnalysis(final_results)
            /\ tpc' = "store"
            /\ exc' = exc
    /\ UNCHANGED <<aggVars, gsVars, callVars, request, docVars>>

\* a task that goes on to the COMPLETED update without the batch committed
TaskStoreDeferred ==
    /\ tpc = "store"
    /\ tpc' = "complete"
    /\ UNCHANGED <<aggVars, gsVars, callVars, request, papers_with_analysis, exc,
                   docVars>>

\* search.py:255, firestore_manager.py:144-198  store_papers commits the
\* batch or raises
TaskStore ==
    /\ tpc = "store"
    /\ \E ok \in BOOLEAN :
         IF ok
         THEN /\ stored' = Some(papers_with_analysis)
              /\ tpc' = "complete"
              /\ exc' = exc
         ELSE /\ stored' = stored
              /\ tpc' = "except"
              /\ exc' = Exception(E_STORE, "store")
    /\ UNCHANGED <<aggVars, gsVars, callVars, request, papers_with_analysis,
                   status, error_message, results_count>>

\* the counter's exception passed on to the caller
increment_api_usage_raising(ok) == IF ok THEN Value(<<>>) ELSE Raised

\* dependencies.py:152-190  increment_api_usage logs its exceptions and
\* raises none
increment_api_usage(ok) == Value(<<>>)

\* search.py:258-267  COMPLETED with results_count = len(papers); then
\* increment_api_usage when analyses were requested
TaskComplete ==
    /\ tpc = "complete"
    /\ \E ok \in BOOLEAN, usage_ok \in BOOLEAN :
         IF ok
         THEN /\ WriteDoc(update_session_status(SessionDoc, COMPLETED, None,
                                                Some(Len(final_results))))
              /\ IF request.generate_analysis /\ increment_api_usage(usage_ok).raised
                 THEN /\ tpc' = "except"
                      /\ exc' = Exception(E_USAGE, "usage")
                 ELSE /\ tpc' = "finished"
                      /\ exc' = exc
         ELSE /\ UNCHANGED <<status, error_message, results_count>>
              /\ tpc' = "except"
              /\ exc' = Exception(E_STATUS, "complete")
    /\ UNCHANGED <<aggVars, gsVars, callVars, request, papers_with_analysis, stored>>

\* an except clause that records a fixed text in place of str(e)
ExceptClauseFixedText(ok) ==
    IF ok
    THEN /\ WriteDoc(update_session_status(SessionDoc, FAILED,
                                           Some("Search failed"), None))
         /\ tpc' = "finished"
    ELSE /\ UNCHANGED <<status, error_message, results_count>>
         /\ tpc' = "escaped"

\* an except clause that logs the exception and stores nothing
ExceptClauseLogOnly(ok) ==
    /\ UNCHANGED <<status, error_message, results_count>>
    /\ tpc' = "finished"

\* search.py:269-276  except Exception as e: the FAILED update with str(e);
\* an exception of that update leaves process_search_task
ExceptClause(ok) ==
    IF ok
    THEN /\ WriteDoc(update_session_status(SessionDoc, FAILED,
                                           Some(exc[1].message), None))
         /\ tpc' = "finished"
    ELSE /\ UNCHANGED <<status, error_message, results_count>>
         /\ tpc' = "escaped"

TaskFailed ==
    /\ tpc = "except"
    /\ \E ok \in BOOLEAN : ExceptClause(ok)
    /\ UNCHANGED <<aggVars, gsVars, callVars, request, papers_with_analysis, exc, stored>>

\* One session from POST /search to the end of its background task, the
\* SerpAPI client installed and the usage file accessible.
InitSession ==
    /\ InitAgg
    /\ InitScholar
    /\ InitTask
    /\ api_key \in {None, Some("key")}
    /\ serpapi_available = TRUE
    /\ file_ok = TRUE

NextSession ==
    \/ CreateSession
    \/ TaskProcessing
    \/ TaskSearch
    \/ \E i \in 1..2 : SearchTask(i)
    \/ \E i \in 1..2 : ScholarTaskBegin(i)
    \/ \E i \in 1..2 : ScholarTaskEnd(i)
    \/ Gathered
    \/ TaskNoPapers
    \/ TaskAnalyze
    \/ TaskStore
    \/ TaskComplete
    \/ TaskFailed

SpecTask == InitSession /\ [][NextSession]_vars

\* search.py:44-50  the background task is run by the event loop to its end,
\* and every collaborator it awaits returns or raises: no step that can be
\* taken is put off forever
TaskSteps ==
    \/ CreateSession
    \/ TaskProcessing
    \/ TaskSearch
    \/ \E i \in 1..2 : SearchTask(i)
    \/ \E i \in 1..2 : ScholarTaskBegin(i)
    \/ \E i \in 1..2 : ScholarTaskEnd(i)
    \/ TaskNoPapers
    \/ TaskAnalyze
    \/ TaskStore
    \/ TaskComplete
    \/ TaskFailed

SpecTaskFair == SpecTask /\ WF_vars(TaskSteps) /\ WF_pc(GatheredReturns)

\* ------------------------------------------------------------------------
\* Sessions of several users, one after the other on one day, on the one
\* aggregator of the process (search.py:23) and its usage file
\* ------------------------------------------------------------------------
MaxSessions == 2
SessionUsers == {"alice", "bob"}
SessionRequests ==
    [sources : {<<ARXIV>>, <<GOOGLE_SCHOLAR, PUBMED>>}, max_results : 1..MaxResults,
     sort_by : {RELEVANCE}, generate_analysis : {FALSE}, user : SessionUsers]

\* what is remembered of a session that is over: its user, and whether its
\* search reached the Google Scholar adapter
SessionRecord ==
    [user |-> request.user,
     scholar |-> \E i \in 1..Len(tasks) : tasks[i].source = GOOGLE_SCHOLAR]

\* search.py:27-50  POST /search of a user, no task of an earlier session
\* still running: a new session document, a new background task
SearchRequested ==
    /\ tpc \in {"none", "finished", "escaped"}
    /\ IF tpc = "none"
       THEN Len(calls) = 0 /\ calls' = calls
       ELSE Len(calls) < MaxSessions - 1 /\ calls' = Append(calls, SessionRecord)
    /\ \E r \in SessionRequests : request' = r
    /\ status' = PENDING
    /\ error_message' = None
    /\ results_count' = 0
    /\ stored' = None
    /\ tpc' = "scheduled"
    /\ papers_with_analysis' = <<>>
    /\ exc' = None
    /\ pc' = "idle"
    /\ tasks' = <<>>
    /\ final_results' = <<>>
    /\ ending' = "none"
    /\ ClearLocals
    /\ UNCHANGED <<sources, max_results, sort_by, user_id, gsVars, served>>

NextSessions ==
    \/ SearchRequested
    \/ TaskProcessing
    \/ TaskSearch
    \/ \E i \in 1..2 : SearchTask(i)
    \/ \E i \in 1..2 : ScholarTaskBegin(i)
    \/ \E i \in 1..2 : ScholarTaskEnd(i)
    \/ Gathered
    \/ TaskNoPapers
    \/ TaskAnalyze
    \/ TaskStore
    \/ TaskComplete
    \/ TaskFailed

SpecSessions == InitSession /\ [][NextSessions]_vars

\* ------------------------------------------------------------------------
\* The adapters against their upstream services
\* ------------------------------------------------------------------------
\* what an upstream request ends with
OK == "ok"
NETWORK_ERROR == "network_error"
HTTP_STATUS == "http_status"
UNPARSABLE == "unparsable"
UpstreamKinds == {OK, NETWORK_ERROR, HTTP_STATUS, UNPARSABLE}

\* an entry of a response from which no Paper can be built
BAD_ENTRY == "bad"

\* the responses of the upstream of a source: how the search request ended,
\* the entries it carried, and for PubMed how the efetch request ended
UpstreamResponses(source) ==
    [kind : UpstreamKinds,
     items : ListsOver(Catalog(source) \cup {BAD_ENTRY}, MaxPerSource),
     fetch : IF source = PUBMED THEN UpstreamKinds ELSE {OK}]

\* the per-entry try/except of the three parsers: an entry that raises, or
\* that gives no Paper, is skipped
RECURSIVE ParseEntries(_, _)
ParseEntries(items, n) ==
    IF n = 0 THEN <<>>
    ELSE IF items[n] = BAD_ENTRY THEN ParseEntries(items, n - 1)
    ELSE Append(ParseEntries(items, n - 1), items[n])

\* arxiv_search.py:45-86  _search_sync: an error of client.results leaves it
arxiv_search_sync(up) ==
    IF up.kind = OK THEN Value(ParseEntries(up.items, Len(up.items))) ELSE Raised

\* ArxivSearcher.search without its except clause
ArxivSearcher_search_unguarded(up) == arxiv_search_sync(up)

\* arxiv_search.py:18-43  ArxivSearcher.search
ArxivSearcher_search(up) ==
    IF arxiv_search_sync(up).raised THEN Value(<<>>) ELSE arxiv_search_sync(up)

\* pubmed_search.py:40-71  _search_pmids: the idlist, [] on a status other
\* than 200 and on any exception
pubmed_search_pmids(up) == IF up.kind = OK THEN up.items ELSE <<>>

\* pubmed_search.py:93-139  _fetch_chunk_details and _parse_pubmed_xml
pubmed_fetch_chunk_details(pmids, up) ==
    IF up.fetch = OK THEN ParseEntries(pmids, Len(pmids)) ELSE <<>>

\* pubmed_search.py:22-38  PubMedSearcher.search
PubMedSearcher_search(up) ==
    LET pmids == pubmed_search_pmids(up)
    IN  IF pmids = <<>> THEN Value(<<>>)
        ELSE Value(pubmed_fetch_chunk_details(pmids, up))

\* google_scholar.py:148-193  _search_sync: the papers parsed, [] when the
\* request raises or the response has no organic_results
scholar_search_sync(up) ==
    IF up.kind = OK THEN Value(ParseEntries(up.items, Len(up.items))) ELSE Value(<<>>)

\* a call of an adapter's search: its source, its position, the response of
\* its upstream once it has one, and what search returned
AdapterCall(source, state, upstream, result) ==
    [source |-> source, state |-> state, upstream |-> upstream, result |-> result]

\* a caller awaits search(query, n) of one of the adapters, the call before
\* it over; calls holds the latest call
SearchCalled ==
    /\ \A c \in 1..Len(calls) : calls[c].state = "done"
    /\ \E source \in ConfiguredSources, n \in 1..MaxResults :
         IF source = GOOGLE_SCHOLAR
         THEN LET sync == ScholarSearchSync(usage, api_key, serpapi_available,
                                            file_ok, "default", today, n)
              IN  /\ usage' = sync.file
                  /\ calls' =
                        IF sync.step = "return"
                        THEN <<AdapterCall(source, "done", None, Some(Value(sync.papers)))>>
                        ELSE <<AdapterCall(source, "upstream", None, None)>>
         ELSE /\ usage' = usage
              /\ calls' = <<AdapterCall(source, "upstream", None, None)>>
    /\ UNCHANGED <<aggVars, api_key, serpapi_available, file_ok, today, served,
                   taskVars, docVars>>

\* the upstream answers, or fails, and search returns
UpstreamAnswered ==
    \E c \in 1..Len(calls) :
        /\ calls[c].state = "upstream"
        /\ \E up \in UpstreamResponses(calls[c].source) :
             LET result ==
                   CASE calls[c].source = ARXIV -> ArxivSearcher_search(up)
                     [] calls[c].source = PUBMED -> PubMedSearcher_search(up)
                     [] calls[c].source = GOOGLE_SCHOLAR ->
                            ScholarSearchAwait(scholar_search_sync(up))
             IN  calls' = [calls EXCEPT ![c] =
                             AdapterCall(calls[c].source, "done", Some(up), Some(result))]
        /\ UNCHANGED <<aggVars, gsVars, served, taskVars, docVars>>

InitAdapters ==
    /\ InitAgg
    /\ InitScholar
    /\ InitTask
    /\ api_key \in {None, Some("key")}
    /\ serpapi_available = TRUE
    /\ file_ok = TRUE

NextAdapters == SearchCalled \/ UpstreamAnswered

SpecAdapters == InitAdapters /\ [][NextAdapters]_vars

\* ------------------------------------------------------------------------
\* Properties of one search_all_sources call (specification Spec)
\* ------------------------------------------------------------------------
\* the papers of the searchers that did not raise, in task order
RECURSIVE SurvivingPapers(_, _)
SurvivingPapers(ts, n) ==
    IF n = 0 THEN <<>>
    ELSE SurvivingPapers(ts, n - 1)
         \o (IF ts[n].answer.raised THEN <<>> ELSE ts[n].answer.value)

\* C1: a call of search_all_sources(query, sources, max_results, ...) that has
\* returned has returned a list of at most max_results papers.
C1_ResultWithinBudget ==
    pc = "returned" => Len(final_results) <= max_results

\* a call whose sorted pool was longer than max_results and was cut to it
C1_Witness ==
    /\ pc = "returned"
    /\ Len(sorted_papers) > max_results
    /\ Len(final_results) = max_results

\* C2: when the searcher of one source raises, every task of the call still
\* runs to its end, the call returns normally, and the result is the one
\* computed (deduplicated, sorted, cut to max_results) from the papers of the
\* searchers that did not raise, the failed one counting as an empty list.
C2_PartialFailureIsolated ==
    (pc = "returned" /\ tasks # <<>>) =>
        /\ \A i \in 1..Len(tasks) : tasks[i].state = "done"
        /\ ending = "return"
        /\ \A i \in 1..Len(tasks) : ~tasks[i].result.raised
        /\ final_results =
             Prefix(_sort_papers(_deduplicate_papers(SurvivingPapers(tasks, Len(tasks))),
                                 sort_by),
                    max_results)

\* a call in which one searcher raised and the papers of another are returned
C2_Witness ==
    /\ pc = "returned"
    /\ \E i, j \in 1..Len(tasks) :
         /\ tasks[i].answer.raised
         /\ ~tasks[j].answer.raised
         /\ tasks[j].answer.value # <<>>
         /\ \E k \in 1..Len(final_results) :
               final_results[k] = tasks[j].answer.value[1]

\* C3: search_all_sources never raises to its caller; an exception of its
\* own body (the division by an empty source list) ends the call with the
\* empty list, and so does a source list without a configured searcher.
C3_NeverRaises ==
    pc = "returned" =>
        /\ ending \in {"return", "caught"}
        /\ ending = "caught" => final_results = <<>>
        /\ tasks = <<>> => final_results = <<>>

\* a call whose body raised and which returned the empty list
C3_Witness ==
    /\ pc = "returned"
    /\ sources = <<>>
    /\ ending = "caught"
    /\ final_results = <<>>

\* C6: under RELEVANCE the sorted list is the round-robin interleaving of the
\* per-source groups of the deduplicated pool: the same papers, ordered first
\* by their rank inside their source (its order in the pool kept) and then by
\* the place where their source first appears in the pool; the result is its
\* first max_results papers.
C6_RankInSource(pool, k) ==
    Cardinality({j \in 1..k : PaperOf[pool[j]].source = PaperOf[pool[k]].source})

C6_SourceFirstAt(pool, k) ==
    CHOOSE j \in 1..k :
        /\ PaperOf[pool[j]].source = PaperOf[pool[k]].source
        /\ \A l \in 1..(j - 1) : PaperOf[pool[l]].source # PaperOf[pool[k]].source

C6_PlaceOf(pool, h) == CHOOSE k \in 1..Len(pool) : pool[k] = h

C6_Before(pool, g, h) ==
    LET kg == C6_PlaceOf(pool, g)
        kh == C6_PlaceOf(pool, h)
    IN  \/ C6_RankInSource(pool, kg) < C6_RankInSource(pool, kh)
        \/ /\ C6_RankInSource(pool, kg) = C6_RankInSource(pool, kh)
           /\ C6_SourceFirstAt(pool, kg) < C6_SourceFirstAt(pool, kh)

C6_RoundRobin ==
    (pc = "returned" /\ tasks # <<>> /\ sort_by = RELEVANCE) =>
        /\ Len(sorted_papers) = Len(unique_papers)
        /\ Range(sorted_papers) = Range(unique_papers)
        /\ \A k, l \in 1..Len(sorted_papers) :
              k < l => C6_Before(unique_papers, sorted_papers[k], sorted_papers[l])
        /\ final_results = Prefix(sorted_papers, max_results)

\* the pool [a1, a2, a3, p2, p3] interleaved as [a1, p2, a2, p3, a3]
C6_Witness ==
    /\ pc = "returned"
    /\ sort_by = RELEVANCE
    /\ unique_papers = <<"a1", "a2", "a3", "p2", "p3">>
    /\ sorted_papers = <<"a1", "p2", "a2", "p3", "a3">>

\* C16: every searcher that is queried in a call is asked for exactly
\* max(1, max_results // n) papers, n the number of sources named in the
\* call, those without an adapter and those named twice counted; it is
\* asked for max_results itself only when the two numbers are equal.
C16_PerSourceBudget ==
    pc # "idle" =>
        \A i \in 1..Len(tasks) :
            LET share == max_results \div Len(sources)
            IN  /\ share >= 1 => tasks[i].asked = share
                /\ share < 1 => tasks[i].asked = 1
                /\ tasks[i].asked = max_results =>
                      (Len(sources) = 1 \/ max_results = 1)

\* a call for 3 papers over arXiv and a source without an adapter: the one
\* searcher queried was asked for 1
C16_Witness ==
    /\ pc = "returned"
    /\ sources = <<ARXIV, IEEE>>
    /\ max_results = 3
    /\ Len(tasks) = 1
    /\ tasks[1].asked = 1
    /\ tasks[1].state = "done"

\* C17: in one call no searcher is queried twice: two tasks of the call
\* that have invoked search are tasks of different sources.
C17_AtMostOncePerSource ==
    \A i, j \in 1..Len(tasks) :
        (/\ tasks[i].state # "created"
         /\ tasks[j].state # "created"
         /\ tasks[i].source = tasks[j].source) => i = j

\* ------------------------------------------------------------------------
\* Properties of _deduplicate_papers (specification SpecPool)
\* ------------------------------------------------------------------------
\* C4: of the papers of a pool that carry one DOI only the first encountered
\* is kept: a paper of the output that has a DOI is the first paper of the
\* pool with that DOI, whatever the titles are.
C4_FirstOfDoiKept ==
    pc # "pool" =>
        \A k \in 1..Len(unique_papers) :
            LET q == PaperOf[unique_papers[k]]
            IN  DoiTruthy(q.doi) =>
                    \E j \in 1..Len(all_papers) :
                        /\ all_papers[j] = unique_papers[k]
                        /\ \A i \in 1..(j - 1) : PaperOf[all_papers[i]].doi # q.doi

\* the words of each title once lowercased, freed of punctuation and split
\* at whitespace
C5_Words ==
    [h \in PoolPapers |->
        CASE h \in {"a1", "p1"} -> {"deep", "learning", "for", "vision"}
          [] h = "p2" -> {"shallow", "networks", "for", "audio"}
          [] h = "s1" -> {"a", "b", "c", "d", "e", "f", "g"}
          [] h = "s2" -> {"a", "b", "c", "d", "e", "f"}
          [] h = "s3" -> {"a", "b", "c", "d", "e"}
          [] h = "a3" -> {"graph", "nets"}
          [] h = "p3" -> {"cell", "atlas_2"}
          [] OTHER -> {}]

\* Jaccard similarity of the two word sets above 0.85
C5_Similar(g, h) ==
    /\ C5_Words[g] # {}
    /\ C5_Words[h] # {}
    /\ 100 * Cardinality(C5_Words[g] \cap C5_Words[h])
         > 85 * Cardinality(C5_Words[g] \cup C5_Words[h])

\* the paper at place i of the pool is kept: no kept paper before it has its
\* DOI, and no kept paper before it has a similar title
RECURSIVE C5_Kept(_, _)
C5_DoiExcluded(pool, i) ==
    /\ DoiTruthy(PaperOf[pool[i]].doi)
    /\ \E j \in 1..(i - 1) :
          C5_Kept(pool, j) /\ PaperOf[pool[j]].doi = PaperOf[pool[i]].doi

C5_TitleDropped(pool, i) ==
    \E j \in 1..(i - 1) : C5_Kept(pool, j) /\ C5_Similar(pool[i], pool[j])

C5_Kept(pool, i) == ~C5_DoiExcluded(pool, i) /\ ~C5_TitleDropped(pool, i)

RECURSIVE C5_KeptPapers(_, _)
C5_KeptPapers(pool, n) ==
    IF n = 0 THEN <<>>
    ELSE IF C5_Kept(pool, n) THEN Append(C5_KeptPapers(pool, n - 1), pool[n])
    ELSE C5_KeptPapers(pool, n - 1)

\* C5: a paper that its DOI does not exclude is dropped exactly when its
\* normalized title (lowercased, punctuation removed, whitespace collapsed)
\* has word-level Jaccard similarity above 0.85 with the normalized title of
\* a paper kept before it; the output is the kept papers in pool order.
C5_TitleDedup ==
    pc # "pool" => unique_papers = C5_KeptPapers(all_papers, Len(all_papers))

\* a pool in which a title at 6/7 of a kept one is dropped and a title at
\* 5/7 of it is kept
C5_Witness ==
    /\ pc = "deduped"
    /\ all_papers = <<"s1", "s2", "s3">>
    /\ unique_papers = <<"s1", "s3">>

\* the place of the published string of each paper among the published
\* strings of the catalog, in lexicographic order ("+" comes before "Z")
PublishedRank ==
    [h \in PoolPapers |->
        CASE h \in {"p1", "s3"} -> 1
          [] h \in {"a2", "a3"} -> 2
          [] h \in {"p3", "s1"} -> 4
          [] h = "a1" -> 5
          [] h = "s2" -> 6
          [] h = "p2" -> 7]

\* the number of times paper h stands in a list
Occurrences(list, h) == Cardinality({k \in 1..Len(list) : list[k] = h})

\* the sorted list holds the papers of the deduplicated pool, each as often
SamePapers ==
    /\ Len(sorted_papers) = Len(unique_papers)
    /\ \A h \in PoolPapers :
          Occurrences(sorted_papers, h) = Occurrences(unique_papers, h)

C18_Count(h) ==
    IF PaperOf[h].citation_count = None THEN -1 ELSE PaperOf[h].citation_count[1]

\* C18: under CITED the sorted list holds the papers of the pool in
\* descending order of (citation_count, published), an absent count taken as
\* -1: a paper without a count stands after every paper with a count >= 0
\* and, of two papers with equal counts, the one with the greater published
\* string stands first.
C18_CitedOrder ==
    (pc = "sorted" /\ sort_by = CITED) =>
        /\ SamePapers
        /\ \A k, l \in 1..Len(sorted_papers) :
              k < l =>
                  LET g == sorted_papers[k]
                      h == sorted_papers[l]
                  IN  /\ C18_Count(g) >= C18_Count(h)
                      /\ PaperOf[g].citation_count = None =>
                            PaperOf[h].citation_count = None
                      /\ C18_Count(g) = C18_Count(h) =>
                            PublishedRank[g] >= PublishedRank[h]

\* a paper with 0 citations before two papers without a count, the later of
\* which is newer than it and stands first of the two
C18_Witness ==
    /\ pc = "sorted"
    /\ sort_by = CITED
    /\ unique_papers = <<"a3", "s2", "p2">>
    /\ sorted_papers = <<"s2", "p2", "a3">>

\* the papers g and h of a list, in the order the list has them
C19_Only(list, g, h) == SelectSeq(list, LAMBDA x : x \in {g, h})

\* C19: under RECENT the sorted list holds the papers of the pool in
\* non-increasing order of their published strings, and papers with equal
\* published strings stand in the order the pool has them.
C19_RecentOrder ==
    (pc = "sorted" /\ sort_by = RECENT) =>
        /\ SamePapers
        /\ \A k \in 1..(Len(sorted_papers) - 1) :
              PublishedRank[sorted_papers[k]] >= PublishedRank[sorted_papers[k + 1]]
        /\ \A g, h \in PoolPapers :
              PublishedRank[g] = PublishedRank[h] =>
                  C19_Only(sorted_papers, g, h) = C19_Only(unique_papers, g, h)

\* the newest paper first, then two papers of one published string in the
\* order of the pool
C19_Witness ==
    /\ pc = "sorted"
    /\ sort_by = RECENT
    /\ unique_papers = <<"a3", "s2", "a2">>
    /\ sorted_papers = <<"s2", "a3", "a2">>

\* C20: _deduplicate_papers is idempotent: called on a list it has
\* returned, it returns that list, the same papers in the same order.
C20_DedupIdempotent ==
    pc = "again" => unique_papers = all_papers

\* a second call on the two papers left of a pool of three
C20_Witness ==
    /\ pc = "again"
    /\ all_papers = <<"a1", "p2">>
    /\ unique_papers = <<"a1", "p2">>

\* ------------------------------------------------------------------------
\* Properties of GoogleScholarSearcher.search (specification SpecScholar)
\* ------------------------------------------------------------------------
\* a call of client c that began after a call of the same user, begun the
\* same day, had returned
C7_SecondCallToday(c) == calls[c].state # "idle" /\ calls[c].prior

\* C7 as stated: in every configuration the second call of a user on one
\* calendar day returns the empty list and sends no request upstream.
C7_SecondCallEmptyAlways ==
    \A c \in Clients :
        C7_SecondCallToday(c) =>
            /\ calls[c].state = "done"
            /\ calls[c].result = <<>>
            /\ ~calls[c].upstream

\* C7: with an API key, the SerpAPI client installed and the usage file
\* readable and writable, the second call of a user on one calendar day
\* returns the empty list and sends no request upstream.
C7_SecondCallEmpty ==
    (api_key # None /\ serpapi_available /\ file_ok) =>
        \A c \in Clients :
            C7_SecondCallToday(c) =>
                /\ calls[c].state = "done"
                /\ calls[c].result = <<>>
                /\ ~calls[c].upstream

\* a second call of the day refused while the usage file counts the first
C7_Witness ==
    /\ api_key # None /\ serpapi_available /\ file_ok
    /\ \E c \in Clients :
          /\ C7_SecondCallToday(c)
          /\ calls[c].state = "done"
          /\ usage[calls[c].user] # None
          /\ usage[calls[c].user][1].last_search_date = calls[c].began
          /\ usage[calls[c].user][1].usage_count = daily_limit_per_user

\* ------------------------------------------------------------------------
\* Properties of process_search_task (specification SpecTask)
\* ------------------------------------------------------------------------
\* the creation of the session document
C8_Created == <<"absent", PENDING>>

\* C8 as stated: the stored status changes only along PENDING -> PROCESSING,
\* PROCESSING -> COMPLETED and PROCESSING -> FAILED.
C8_OnlyThreeTransitions ==
    [][status' # status =>
          <<status, status'>> \in {C8_Created,
                                   <<PENDING, PROCESSING>>,
                                   <<PROCESSING, COMPLETED>>,
                                   <<PROCESSING, FAILED>>}]_vars

\* C8: the stored status changes only along PENDING -> PROCESSING,
\* PROCESSING -> COMPLETED, PROCESSING -> FAILED and, when the PROCESSING
\* update itself raises, PENDING -> FAILED: it never regresses, COMPLETED is
\* never entered from PENDING, and a stored COMPLETED or FAILED is final.
C8_StatusTransitions ==
    [][status' # status =>
          <<status, status'>> \in {C8_Created,
                                   <<PENDING, PROCESSING>>,
                                   <<PROCESSING, COMPLETED>>,
                                   <<PROCESSING, FAILED>>,
                                   <<PENDING, FAILED>>}]_vars

\* a task that ended after COMPLETED was stored, its usage counted
C8_Witness ==
    /\ tpc = "finished"
    /\ status = COMPLETED
    /\ request.generate_analysis
    /\ stored # None

\* C9: no exception leaves process_search_task, whatever the collaborators
\* do, a refused FAILED update included.
C9_NoExceptionEscapes == tpc # "escaped"

\* an exception raised by a step that follows the stored PROCESSING
C10_RaisedAfterProcessing == exc # None /\ exc[1].raised_at # "processing"

\* C10 as stated: after such an exception the final stored status is FAILED
\* and error_message is the message of the exception.
C10_RaisedMeansFailedAlways ==
    (tpc \in {"finished", "escaped"} /\ C10_RaisedAfterProcessing) =>
        /\ status = FAILED
        /\ error_message = Some(exc[1].message)

\* C10: after such an exception the except clause sends one FAILED update
\* with the message of the exception; when the storage accepts it the final
\* stored status is FAILED and error_message is that message, and when the
\* storage refuses it the stored status stays PROCESSING with no
\* error_message.
C10_RaisedMeansFailed ==
    C10_RaisedAfterProcessing =>
        /\ tpc = "finished" =>
              /\ status = FAILED
              /\ error_message = Some(exc[1].message)
        /\ tpc = "escaped" => (status = PROCESSING /\ error_message = None)

\* a task whose store_papers raised and whose session ended FAILED
C10_Witness ==
    /\ tpc = "finished"
    /\ exc # None
    /\ exc[1].raised_at = "store"
    /\ status = FAILED
    /\ error_message = Some(E_STORE)

\* the task has ended after search_all_sources returned the empty list
C11_EndedOnEmptyResult ==
    /\ tpc \in {"finished", "escaped"}
    /\ pc = "returned"
    /\ final_results = <<>>

\* C11 as stated: after an empty result the task always ends with the
\* session COMPLETED, a message, results_count = 0, nothing enriched or stored.
C11_EmptyMeansCompletedAlways ==
    C11_EndedOnEmptyResult =>
        /\ status = COMPLETED
        /\ error_message # None
        /\ results_count = 0
        /\ stored = None
        /\ papers_with_analysis = <<>>

\* C11: after an empty result neither the enrichment nor store_papers runs
\* and results_count stays 0; when the storage accepts the COMPLETED update
\* the session ends COMPLETED with the "No papers found" message, and only a
\* refused COMPLETED update leads to the except clause (FAILED when its
\* update is accepted, PROCESSING when it is refused too).
C11_EmptyMeansCompleted ==
    C11_EndedOnEmptyResult =>
        /\ results_count = 0
        /\ stored = None
        /\ papers_with_analysis = <<>>
        /\ exc = None =>
              /\ tpc = "finished"
              /\ status = COMPLETED
              /\ error_message = Some(NO_PAPERS)
        /\ exc # None =>
              /\ exc[1].raised_at = "no_papers"
              /\ status = (IF tpc = "finished" THEN FAILED ELSE PROCESSING)

\* a task whose queried sources returned nothing and whose session is COMPLETED
C11_Witness ==
    /\ C11_EndedOnEmptyResult
    /\ tasks # <<>>
    /\ status = COMPLETED
    /\ error_message = Some(NO_PAPERS)

C13_Rejected ==
    \E i \in 1..Len(tasks) :
        /\ tasks[i].source = GOOGLE_SCHOLAR
        /\ tasks[i].state = "created"
        /\ i \in 1..Len(tasks')
        /\ tasks'[i].state = "done"
        /\ tasks'[i].answer = Value(<<>>)

\* C13: the Google Scholar search of a session is rejected by the rate
\* limiter only when an earlier session of the same user searched Google
\* Scholar that day: the search of one user never makes the limiter reject
\* the search of another.
C13_PerUserLimit ==
    [][C13_Rejected =>
          \E k \in 1..Len(calls) :
              calls[k].user = request.user /\ calls[k].scholar]_vars

\* ------------------------------------------------------------------------
\* Properties of the adapters (specification SpecAdapters)
\* ------------------------------------------------------------------------
\* the upstream request of a call failed as a whole
C14_UpstreamFailed(call) ==
    /\ call.upstream # None
    /\ \/ call.upstream[1].kind # OK
       \/ call.upstream[1].fetch # OK

\* C14: a search of ArxivSearcher, PubMedSearcher or GoogleScholarSearcher
\* that has ended has returned a list of papers and raised nothing, whatever
\* its upstream did; after a network error, a status other than 200 or an
\* unparsable response the list is empty.
C14_AdaptersNeverRaise ==
    \A c \in 1..Len(calls) :
        calls[c].state = "done" =>
            /\ ~calls[c].result[1].raised
            /\ Range(calls[c].result[1].value) \subseteq Handles
            /\ C14_UpstreamFailed(calls[c]) => calls[c].result[1].value = <<>>

\* PubMedSearcher.search has answered [] to an efetch request that failed
\* after esearch had found papers
C14_Witness ==
    /\ Len(calls) = 1
    /\ calls[1].state = "done"
    /\ calls[1].source = PUBMED
    /\ calls[1].upstream # None
    /\ calls[1].upstream[1].kind = OK
    /\ calls[1].upstream[1].items # <<>>
    /\ calls[1].upstream[1].fetch = HTTP_STATUS
    /\ calls[1].result = Some(Value(<<>>))

\* ------------------------------------------------------------------------
\* Properties of concurrent Scholar searches (specification SpecScholar)
\* ------------------------------------------------------------------------
\* client c begins a search in this step
C21_Begins(c) ==
    /\ calls[c].state \in {"idle", "done"}
    /\ calls'[c] # calls[c]

\* another client's search of the same user, begun today, is waiting for
\* SerpAPI while client c begins
C21_Overlapped(c) ==
    \E o \in Clients \ {c} :
        /\ calls[o].state = "upstream"
        /\ calls[o].user = calls'[c].user
        /\ calls[o].began = today

\* C21 as stated: a search of a user that begins while another search of
\* that user, begun the same day, is still in flight passes the check as
\* well and is sent upstream.
C21_BothPassCheck ==
    [][\A c \in Clients :
          (C21_Begins(c) /\ C21_Overlapped(c)) => calls'[c].state = "upstream"]_vars

\* C21: the check and the update of a search run without a suspension
\* between them, so with the usage file readable and writable a search is
\* sent upstream only when no search of that user begun the same day was
\* sent upstream, in flight or returned; a search that overlaps one in
\* flight is refused.
C21_CheckAndUpdateAtomic ==
    [][file_ok =>
          \A c \in Clients :
              (C21_Begins(c) /\ calls'[c].state = "upstream") =>
                  ~\E o \in Clients :
                      /\ calls[o].state # "idle"
                      /\ calls[o].upstream
                      /\ calls[o].user = calls'[c].user
                      /\ calls[o].began = calls'[c].began]_vars

\* a search refused while the only other search of that user that day is
\* still waiting for SerpAPI
C21_Witness ==
    /\ file_ok
    /\ \E c \in Clients, o \in Clients :
          /\ c # o
          /\ calls[o].state = "upstream"
          /\ calls[c].state = "done"
          /\ calls[c].user = calls[o].user
          /\ calls[c].began = calls[o].began
          /\ ~calls[c].prior
          /\ ~calls[c].upstream
          /\ calls[c].result = <<>>

\* ------------------------------------------------------------------------
\* Order of the candidate pool (specification Spec)
\* ------------------------------------------------------------------------
\* the lists the first n tasks returned, one after the other in task order
RECURSIVE C22_InTaskOrder(_, _)
C22_InTaskOrder(ts, n) ==
    IF n = 0 THEN <<>>
    ELSE C22_InTaskOrder(ts, n - 1) \o
         (IF ts[n].result.raised THEN <<>> ELSE ts[n].result.value)

\* the lists of the tasks that finished first to k-th, in that order
RECURSIVE C22_InCompletionOrder(_, _)
C22_InCompletionOrder(ts, k) ==
    IF k = 0 THEN <<>>
    ELSE LET i == CHOOSE j \in 1..Len(ts) : ts[j].finished = k
         IN  C22_InCompletionOrder(ts, k - 1) \o
             (IF ts[i].result.raised THEN <<>> ELSE ts[i].result.value)

\* the call went through the gather and built its pool
C22_PoolBuilt == pc = "returned" /\ tasks # <<>> /\ ending = "return"

C23_ReachesTerminalStatus ==
    (tpc = "scheduled") ~> (status \in {COMPLETED, FAILED})

\* the task is over: it returned with COMPLETED or FAILED stored, or the
\* FAILED update of its except clause was refused and its exception left
\* the task with the session still PENDING or PROCESSING
C23_TaskOver ==
    \/ tpc = "finished" /\ status \in {COMPLETED, FAILED}
    \/ tpc = "escaped" /\ status \in {PENDING, PROCESSING} /\ exc # None

\* C23: when every collaborator call returns or raises, every run of
\* process_search_task ends; it ends with the session COMPLETED or FAILED
\* unless the storage refused the FAILED update of the except clause, in
\* which case the session stays PENDING or PROCESSING.
C23_TaskEnds == (tpc = "scheduled") ~> C23_TaskOver

\* a task that found papers, had them analysed and stored, and returned
\* with the session COMPLETED
C23_Witness ==
    /\ tpc = "finished"
    /\ request.generate_analysis
    /\ status = COMPLETED
    /\ results_count = Len(final_results)
    /\ results_count > 0
    /\ exc = None

\* ------------------------------------------------------------------------
\* PROCESSING and the call of the aggregator (specification SpecTask)
\* ------------------------------------------------------------------------
\* C24: search_all_sources runs only for a session stored as PROCESSING,
\* never for one still PENDING, and a task whose PROCESSING update was
\* refused never calls it.
C24_ProcessingBeforeSearch ==
    /\ pc = "gather" => status = PROCESSING
    /\ pc # "idle" => status \in {PROCESSING, COMPLETED, FAILED}
    /\ (exc # None /\ exc[1].raised_at = "processing") =>
          /\ pc = "idle"
          /\ tasks = <<>>
          /\ tpc \in {"except", "finished", "escaped"}

\* the searchers of a session at work, one of them done, the session
\* stored as PROCESSING
C24_Witness ==
    /\ tpc = "searching"
    /\ pc = "gather"
    /\ status = PROCESSING
    /\ \E i \in 1..Len(tasks) : tasks[i].state = "done"
    /\ \E i \in 1..Len(tasks) : tasks[i].state # "done"

\* ------------------------------------------------------------------------
\* Usage counted before the request to SerpAPI (specification SpecScholar)
\* ------------------------------------------------------------------------
\* another client's search of the user of the search client c begins now,
\* begun today, went to SerpAPI and returned nothing
C25_AfterEmptySearch(c) ==
    \E o \in Clients \ {c} :
        /\ calls[o].state = "done"
        /\ calls[o].upstream
        /\ calls[o].result = <<>>
        /\ calls[o].user = calls'[c].user
        /\ calls[o].began = today

\* the search client c begins now is refused by the rate limiter
C25_Refused(c) ==
    /\ calls'[c].state = "done"
    /\ ~calls'[c].upstream
    /\ calls'[c].result = <<>>

\* the usage file counts a search of the user of the request in flight of
\* client c, on the day it began or later
C25_Counted(c) ==
    /\ usage'[calls'[c].user] # None
    /\ usage'[calls'[c].user][1].last_search_date >= calls'[c].began
    /\ usage'[calls'[c].user][1].usage_count >= 1

\* C25 as stated: with an API key, whenever a request is in flight the
\* usage of its user is recorded, and a search following, the same day, a
\* search of that user whose request failed or found nothing is refused.
C25_UsageCountedFirstAlways ==
    [][api_key # None =>
          \A c \in Clients :
              /\ calls'[c].state = "upstream" => C25_Counted(c)
              /\ (C21_Begins(c) /\ C25_AfterEmptySearch(c)) => C25_Refused(c)]_vars

\* C25: with an API key and the usage file readable and writable, whenever
\* a request is in flight the usage of its user is recorded, and a search
\* following, the same day, a search of that user whose request failed or
\* found nothing is refused.
C25_UsageCountedFirst ==
    [][(api_key # None /\ file_ok) =>
          \A c \in Clients :
              /\ calls'[c].state = "upstream" => C25_Counted(c)
              /\ (C21_Begins(c) /\ C25_AfterEmptySearch(c)) => C25_Refused(c)]_vars

\* a search refused after a search of the same user and day that went to
\* SerpAPI and came back with nothing
C25_Witness ==
    /\ api_key # None /\ file_ok
    /\ \E c \in Clients, o \in Clients :
          /\ c # o
          /\ calls[o].state = "done" /\ calls[o].upstream /\ calls[o].result = <<>>
          /\ calls[c].state = "done" /\ ~calls[c].upstream /\ calls[c].result = <<>>
          /\ calls[c].prior
          /\ calls[c].user = calls[o].user
          /\ calls[c].began = calls[o].began
          /\ usage[calls[c].user][1].usage_count = 1

\* ------------------------------------------------------------------------
\* No duplicate pair in the output of _deduplicate_papers (specification
\* SpecPool)
\* ------------------------------------------------------------------------
\* C26: no two papers of the output of _deduplicate_papers carry the same
\* non-empty DOI, and no two have non-empty normalized titles whose word
\* sets have a Jaccard similarity above 0.85.
C26_NoDuplicatePair ==
    pc \in {"deduped", "again"} =>
        \A i \in 1..Len(unique_papers), j \in 1..Len(unique_papers) :
            i < j =>
                /\ ~(/\ DoiTruthy(PaperOf[unique_papers[i]].doi)
                      /\ PaperOf[unique_papers[i]].doi = PaperOf[unique_papers[j]].doi)
                /\ ~C5_Similar(unique_papers[i], unique_papers[j])

\* a pool with a paper, a paper of similar title and a paper of the same
\* DOI, of which the first alone is left
C26_Witness ==
    /\ pc = "deduped"
    /\ all_papers = <<"s1", "s2", "p3">>
    /\ unique_papers = <<"s1">>

\* ------------------------------------------------------------------------
\* Papers neither invented nor duplicated (specification Spec)
\* ------------------------------------------------------------------------
\* the papers the searchers of this call returned
C27_Returned ==
    UNION {Range(tasks[i].answer.value) :
              i \in {j \in 1..Len(tasks) : ~tasks[j].answer.raised}}

\* sub is what is left of list when some of its entries are struck out
RECURSIVE C27_Subsequence(_, _)
C27_Subsequence(sub, list) ==
    IF sub = <<>> THEN TRUE
    ELSE IF list = <<>> THEN FALSE
    ELSE IF Head(sub) = Head(list)
         THEN C27_Subsequence(Tail(sub), Tail(list))
         ELSE C27_Subsequence(sub, Tail(list))

\* the two lists hold the same papers, each as many times
C27_Permutation(one, other) ==
    /\ Len(one) = Len(other)
    /\ \A h \in Handles : Occurrences(one, h) = Occurrences(other, h)

\* C27: every paper of the result of search_all_sources was returned by a
\* searcher of this call, no paper stands more often in the result than in
\* the pool, the deduplicated list is the pool with entries struck out, and
\* the sorted list is a rearrangement of the deduplicated list, for every
\* sort_by.
C27_NothingInventedOrDuplicated ==
    pc = "returned" =>
        /\ Range(final_results) \subseteq C27_Returned
        /\ \A h \in Handles :
              Occurrences(final_results, h) <= Occurrences(all_papers, h)
        /\ C27_Subsequence(unique_papers, all_papers)
        /\ C27_Permutation(sorted_papers, unique_papers)
        /\ C27_Subsequence(final_results, sorted_papers)

\* a call whose pool lost a duplicate, was put in another order by the
\* sort and was cut to max_results
C27_Witness ==
    /\ pc = "returned"
    /\ Len(unique_papers) < Len(all_papers)
    /\ sorted_papers # unique_papers
    /\ Len(final_results) < Len(sorted_papers)
    /\ final_results # <<>>

\* ------------------------------------------------------------------------
\* Properties of the rate-limit helpers (specification SpecStore)
\* ------------------------------------------------------------------------
\* the last operation on the usage file was a call of the named helper
C28_Called(op) == calls # <<>> /\ calls[1].op = op

\* C28: with the usage file readable, _check_rate_limit(u) answers true
\* exactly when u has no record, or the date of the record is not today,
\* or its usage_count is below daily_limit_per_user; the file is the same
\* after the check.
C28_CheckSemantics ==
    (C28_Called("check") /\ file_ok) =>
        LET u == calls[1].user
            record == calls[1].before[u]
        IN  /\ calls[1].answer <=>
                  \/ record = None
                  \/ record[1].last_search_date # calls[1].day
                  \/ record[1].usage_count < daily_limit_per_user
            /\ usage = calls[1].before

\* a user refused: the record is of today and the allowance is used
C28_Witness ==
    /\ C28_Called("check")
    /\ file_ok
    /\ ~calls[1].answer
    /\ usage[calls[1].user] # None
    /\ usage[calls[1].user][1].last_search_date = calls[1].day
    /\ usage[calls[1].user][1].usage_count = daily_limit_per_user
\* what _update_rate_limit(u) is stated to do to the file it found
C29_Effect ==
    LET u == calls[1].user
        record == calls[1].before[u]
    IN  /\ IF record = None
           THEN usage[u] = Some([last_search_date |-> calls[1].day, usage_count |-> 1])
           ELSE IF record[1].last_search_date # calls[1].day
           THEN usage[u] = Some([last_search_date |-> calls[1].day, usage_count |-> 1])
           ELSE usage[u] = Some([last_search_date |-> record[1].last_search_date,
                                 usage_count |-> record[1].usage_count + 1])
        /\ \A v \in Users \ {u} : usage[v] = calls[1].before[v]

C30_AllFinished == \A i \in 1..Len(tasks) : tasks[i].state = "done"

\* C30: search_all_sources returns only when every task it launched has
\* finished, and once they all have finished it returns; while a task is
\* unfinished the call waits, whatever the other tasks have returned.
C30_ReturnsIffAllFinish ==
    /\ [](pc = "returned" => C30_AllFinished)
    /\ [](pc = "gather" /\ ~C30_AllFinished => final_results = <<>>)
    /\ (pc = "gather" /\ C30_AllFinished) ~> (pc = "returned")

\* the call waiting for the request of the Google Scholar task while
\* another task has returned papers
C30_Witness ==
    /\ pc = "gather"
    /\ \E i \in 1..Len(tasks) :
          tasks[i].state = "done" /\ tasks[i].result.value # <<>>
    /\ \E i \in 1..Len(tasks) : tasks[i].state = "upstream"
    /\ final_results = <<>>

====
